---- MODULE Spec2Model ----
(***************************************************************************)
(* Model of the Barnes-Hut quadtree of src/src/quadtree.rs: the arena of   *)
(* nodes, add_node (in-bounds subdivision and root expansion) and          *)
(* collect_bodies.                                                         *)
(*                                                                         *)
(* Numbers.  The f32 values of the program are modelled as exact rational  *)
(* numbers <<numerator, denominator>> in lowest terms with a positive      *)
(* denominator, so halving a half_size and the mass-weighted average of    *)
(* a center of mass are computed as the code computes them, without        *)
(* rounding.  Masses are positive integers.                                *)
(*                                                                         *)
(* Indices.  Rust's vec[i] is vec[i + 1] here (sequences are 1-based);     *)
(* Option<usize> is an index or None.  children[q] of the code is          *)
(* children[q + 1] here.  bounds[0], bounds[1] are bounds[1], bounds[2].   *)
(***************************************************************************)
EXTENDS Integers, Sequences, FiniteSets, TLC

VARIABLES vec, bounds, root, crashed, bodies, query, inserted, created, expansions, last

vars == <<vec, bounds, root, crashed, bodies, query, inserted, created, expansions, last>>

---------------------------------------------------------------------------
(* Bounds of the model *)

\* Number of add_node calls made on one tree.
MaxInserts == 3

\* Depth of nested split_add_recursive calls the stack can hold; a deeper
\* nesting overflows the stack and aborts the process.
MaxStack == 6

---------------------------------------------------------------------------
(* Rational arithmetic (the arithmetic of f32, without rounding) *)

Abs(n) == IF n < 0 THEN -n ELSE n

RECURSIVE GCD(_, _)
GCD(a, b) == IF b = 0 THEN a ELSE GCD(b, a % b)

\* The rational n/d (d # 0) in lowest terms with a positive denominator.
Norm(n, d) ==
    LET g == GCD(Abs(n), Abs(d))
        s == IF d < 0 THEN -1 ELSE 1
    IN  <<(s * n) \div g, (s * d) \div g>>

R(n) == <<n, 1>>

RAdd(a, b) == Norm(a[1] * b[2] + b[1] * a[2], a[2] * b[2])
RSub(a, b) == Norm(a[1] * b[2] - b[1] * a[2], a[2] * b[2])
RMul(a, b) == Norm(a[1] * b[1], a[2] * b[2])
RDiv(a, b) == Norm(a[1] * b[2], a[2] * b[1])
RLt(a, b)  == a[1] * b[2] < b[1] * a[2]
RGt(a, b)  == RLt(b, a)

\* bevy's Vec2 and the operations on it the program uses.
Vec2(x, y) == [x |-> x, y |-> y]
VAdd(u, v) == Vec2(RAdd(u.x, v.x), RAdd(u.y, v.y))
VScale(u, s) == Vec2(RMul(u.x, s), RMul(u.y, s))
VDiv(u, s) == Vec2(RDiv(u.x, s), RDiv(u.y, s))
\* Square of Vec2::distance.
DistanceSquared(u, v) ==
    LET dx == RSub(u.x, v.x)
        dy == RSub(u.y, v.y)
    IN  RAdd(RMul(dx, dx), RMul(dy, dy))

---------------------------------------------------------------------------
(* Node *)

\* Option::None of a child slot (node indices start at 1).
None == 0

NoChildren == <<None, None, None, None>>

Node(children, mass, center, center_of_mass, half_size) ==
    [children |-> children, mass |-> mass, center |-> center,
     center_of_mass |-> center_of_mass, half_size |-> half_size]

\* Node::get_quadrant
GetQuadrant(node, pos) ==
    LET gx == RGt(pos.x, node.center.x)
        gy == RGt(pos.y, node.center.y)
    IN  IF ~gx /\ gy THEN 0
        ELSE IF gx /\ gy THEN 1
        ELSE IF ~gx /\ ~gy THEN 2
        ELSE 3

\* A variant of IsLeaf with the two return values swapped.
IsLeafSwapped(node) == \E q \in 1..4 : node.children[q] # None

\* Node::is_leaf
IsLeaf(node) == \A q \in 1..4 : node.children[q] = None

---------------------------------------------------------------------------
(* QuadTree *)

\* QuadTree::new: the arena holding the root alone, and the bounds.
NewVec(center, half_size) ==
    <<Node(NoChildren, 0, center, center, half_size)>>

NewBounds(center, half_size) ==
    <<Vec2(RSub(center.x, half_size), RSub(center.y, half_size)),
      Vec2(RAdd(center.x, half_size), RAdd(center.y, half_size))>>

\* QuadTree::in_bounds
InBounds(b, position) ==
    IF RLt(position.x, b[1].x) THEN FALSE
    ELSE IF RLt(b[2].x, position.x) THEN FALSE
    ELSE IF RLt(position.y, b[1].y) THEN FALSE
    ELSE IF RLt(b[2].y, position.y) THEN FALSE
    ELSE TRUE

\* A variant of UpdateAggregate that adds the mass before it recomputes the
\* center of mass, so that the average is weighted with the new mass.
UpdateAggregateMassFirst(node, position, mass) ==
    [node EXCEPT
       !.center_of_mass =
           VDiv(VAdd(VScale(node.center_of_mass, R(node.mass + mass)),
                     VScale(position, R(mass))),
                R(node.mass + mass + mass)),
       !.mass = node.mass + mass]

\* split_add_recursive, the update of the visited node's aggregate:
\* center_of_mass is recomputed with the old mass, then mass grows.
UpdateAggregate(node, position, mass) ==
    [node EXCEPT
       !.center_of_mass =
           VDiv(VAdd(VScale(node.center_of_mass, R(node.mass)),
                     VScale(position, R(mass))),
                R(node.mass + mass)),
       !.mass = node.mass + mass]

\* split_add_recursive, the center computed for quadrant index q of a node
\* with center c, h being half the node's half_size.
QuadrantCenter(c, h, q) ==
    IF q = 0 THEN Vec2(RSub(c.x, h), RSub(c.y, h))
    ELSE IF q = 1 THEN Vec2(RAdd(c.x, h), RSub(c.y, h))
    ELSE IF q = 2 THEN Vec2(RAdd(c.x, h), RAdd(c.y, h))
    ELSE Vec2(RSub(c.x, h), RAdd(c.y, h))

\* A variant of LeafNode that takes the center of the region for the center
\* of mass.
LeafNodeAtCenter(center, position, mass, half_size) ==
    Node(NoChildren, mass, center, center, half_size)

\* split_add_recursive, the leaf pushed into an empty slot.
LeafNode(center, position, mass, half_size) ==
    Node(NoChildren, mass, center, position, half_size)

\* A variant of DemotedCenter that offsets the center by the half_size the
\* leaf had before it was halved.
DemotedCenterUnhalved(c, h, q) == QuadrantCenter(c, RMul(h, R(2)), q)

\* split_add_recursive, the center given to the original leaf when it is
\* moved below the internal node that replaces it (h is its halved half_size).
DemotedCenter(c, h, q) ==
    IF q = 0 THEN Vec2(RSub(c.x, h), RSub(c.y, h))
    ELSE IF q = 1 THEN Vec2(RAdd(c.x, h), RSub(c.y, h))
    ELSE IF q = 2 THEN Vec2(RAdd(c.x, h), RAdd(c.y, h))
    ELSE Vec2(RSub(c.x, h), RAdd(c.y, h))

\* A variant of Promote that leaves the leaf in its parent's slot instead of
\* putting the new internal node there.
PromoteKeepsLink(v, node_idx, child_quadrant, child_idx) ==
    LET original == v[child_idx]
        idx == Len(v) + 1
        pushed == Append(v, Node(NoChildren, original.mass, original.center,
                                 original.center_of_mass, original.half_size))
        new_quadrant == GetQuadrant(pushed[idx], original.center_of_mass)
        half == RDiv(original.half_size, R(2))
    IN  [pushed EXCEPT
           ![child_idx].half_size = half,
           ![child_idx].center = DemotedCenter(original.center, half, new_quadrant),
           ![idx].children[new_quadrant + 1] = child_idx]

\* A variant of Promote whose new internal node starts with mass 0 instead
\* of the mass of the leaf it replaces.
PromoteZeroMass(v, node_idx, child_quadrant, child_idx) ==
    LET original == v[child_idx]
        idx == Len(v) + 1
        pushed == Append(v, Node(NoChildren, 0, original.center,
                                 original.center_of_mass, original.half_size))
        linked == [pushed EXCEPT ![node_idx].children[child_quadrant + 1] = idx]
        new_quadrant == GetQuadrant(linked[idx], original.center_of_mass)
        half == RDiv(original.half_size, R(2))
    IN  [linked EXCEPT
           ![child_idx].half_size = half,
           ![child_idx].center = DemotedCenter(original.center, half, new_quadrant),
           ![idx].children[new_quadrant + 1] = child_idx]

\* split_add_recursive, the promotion of the leaf child_idx held in slot
\* child_quadrant of node_idx: an internal node with the leaf's region and
\* aggregate is pushed at idx and takes the slot; the leaf's half_size is
\* halved, its center moved, and it becomes a child of the internal node.
Promote(v, node_idx, child_quadrant, child_idx) ==
    LET original == v[child_idx]
        idx == Len(v) + 1
        pushed == Append(v, Node(NoChildren, original.mass, original.center,
                                 original.center_of_mass, original.half_size))
        linked == [pushed EXCEPT ![node_idx].children[child_quadrant + 1] = idx]
        new_quadrant == GetQuadrant(linked[idx], original.center_of_mass)
        half == RDiv(original.half_size, R(2))
    IN  [linked EXCEPT
           ![child_idx].half_size = half,
           ![child_idx].center = DemotedCenter(original.center, half, new_quadrant),
           ![idx].children[new_quadrant + 1] = child_idx]

\* split_add_recursive.  depth is the number of nested calls, this one
\* included; a call that would nest deeper than the stack holds overflows
\* it.  The result is the arena, or the overflow.
RECURSIVE SplitAddRecursive(_, _, _, _, _)
SplitAddRecursive(v, node_idx, position, mass, depth) ==
    IF depth > MaxStack THEN [overflow |-> TRUE, vec |-> v]
    ELSE
    LET updated == [v EXCEPT ![node_idx] = UpdateAggregate(@, position, mass)]
        node == updated[node_idx]
        child_quadrant == GetQuadrant(node, position)
        new_halfsize == RDiv(node.half_size, R(2))
        center == QuadrantCenter(node.center, new_halfsize, child_quadrant)
        idx == Len(updated) + 1
        child_idx == node.children[child_quadrant + 1]
    IN  IF child_idx = None
        THEN [overflow |-> FALSE,
              vec |-> [Append(updated, LeafNode(center, position, mass, new_halfsize))
                         EXCEPT ![node_idx].children[child_quadrant + 1] = idx]]
        ELSE IF IsLeaf(updated[child_idx])
        THEN SplitAddRecursive(Promote(updated, node_idx, child_quadrant, child_idx),
                               idx, position, mass, depth + 1)
        ELSE SplitAddRecursive(updated, child_idx, position, mass, depth + 1)

\* A variant of ExpandBounds that grows the bounds by the old half side
\* length along y on the two branches that grow downwards.
ExpandBoundsSkew(b, center, position) ==
    LET half_size == RSub(b[2].x, b[1].x)
        half == RDiv(half_size, R(2))
    IN  IF RLt(position.x, center.x)
        THEN IF RLt(position.y, center.y)
             THEN <<Vec2(RSub(b[1].x, half_size), RSub(b[1].y, half_size)), b[2]>>
             ELSE <<Vec2(RSub(b[1].x, half_size), b[1].y),
                    Vec2(b[2].x, RAdd(b[2].y, half))>>
        ELSE IF RLt(position.y, center.y)
             THEN <<Vec2(b[1].x, RSub(b[1].y, half_size)),
                    Vec2(RAdd(b[2].x, half_size), b[2].y)>>
             ELSE <<b[1], Vec2(RAdd(b[2].x, half_size), RAdd(b[2].y, half))>>

\* A variant of ExpandBounds that grows the bounds on the side of the
\* root's center away from the position.
ExpandBoundsAway(b, center, position) ==
    LET half_size == RSub(b[2].x, b[1].x)
    IN  IF RLt(position.x, center.x)
        THEN IF RLt(position.y, center.y)
             THEN <<b[1], Vec2(RAdd(b[2].x, half_size), RAdd(b[2].y, half_size))>>
             ELSE <<Vec2(b[1].x, RSub(b[1].y, half_size)),
                    Vec2(RAdd(b[2].x, half_size), b[2].y)>>
        ELSE IF RLt(position.y, center.y)
             THEN <<Vec2(RSub(b[1].x, half_size), b[1].y),
                    Vec2(b[2].x, RAdd(b[2].y, half_size))>>
             ELSE <<Vec2(RSub(b[1].x, half_size), RSub(b[1].y, half_size)), b[2]>>

\* add_node, root expansion: the bounds grown by the old side length
\* towards the side of the root's center the position lies on.
ExpandBounds(b, center, position) ==
    LET half_size == RSub(b[2].x, b[1].x)
    IN  IF RLt(position.x, center.x)
        THEN IF RLt(position.y, center.y)
             THEN <<Vec2(RSub(b[1].x, half_size), RSub(b[1].y, half_size)), b[2]>>
             ELSE <<Vec2(RSub(b[1].x, half_size), b[1].y),
                    Vec2(b[2].x, RAdd(b[2].y, half_size))>>
        ELSE IF RLt(position.y, center.y)
             THEN <<Vec2(b[1].x, RSub(b[1].y, half_size)),
                    Vec2(RAdd(b[2].x, half_size), b[2].y)>>
             ELSE <<b[1], Vec2(RAdd(b[2].x, half_size), RAdd(b[2].y, half_size))>>

\* add_node, root expansion: the slot of the new root that takes the
\* previous root.
ExpandChildren(center, position, prev_root_idx) ==
    IF RLt(position.x, center.x)
    THEN IF RLt(position.y, center.y)
         THEN [NoChildren EXCEPT ![2 + 1] = prev_root_idx]
         ELSE [NoChildren EXCEPT ![1 + 1] = prev_root_idx]
    ELSE IF RLt(position.y, center.y)
         THEN [NoChildren EXCEPT ![3 + 1] = prev_root_idx]
         ELSE [NoChildren EXCEPT ![0 + 1] = prev_root_idx]

\* A variant of NewRoot that starts the new root without children, like
\* the other nodes the program pushes.
NewRootNoChildren(prev, children, new_bounds, half_size, position, mass) ==
    Node(NoChildren,
         prev.mass + mass,
         Vec2(RDiv(RAdd(new_bounds[1].x, new_bounds[2].x), R(2)),
              RDiv(RAdd(new_bounds[1].y, new_bounds[2].y), R(2))),
         VDiv(VAdd(VScale(prev.center_of_mass, R(prev.mass)),
                   VScale(position, R(mass))),
              R(mass + prev.mass)),
         half_size)

\* A variant of NewRoot that keeps the center of the previous root.
NewRootOldCenter(prev, children, new_bounds, half_size, position, mass) ==
    Node(children,
         prev.mass + mass,
         prev.center,
         VDiv(VAdd(VScale(prev.center_of_mass, R(prev.mass)),
                   VScale(position, R(mass))),
              R(mass + prev.mass)),
         half_size)

\* A variant of NewRoot that leaves the inserted mass out of the new root.
NewRootDropsMass(prev, children, new_bounds, half_size, position, mass) ==
    Node(children,
         prev.mass,
         Vec2(RDiv(RAdd(new_bounds[1].x, new_bounds[2].x), R(2)),
              RDiv(RAdd(new_bounds[1].y, new_bounds[2].y), R(2))),
         VDiv(VAdd(VScale(prev.center_of_mass, R(prev.mass)),
                   VScale(position, R(mass))),
              R(mass + prev.mass)),
         half_size)

\* add_node, root expansion: the new root node.
NewRoot(prev, children, new_bounds, half_size, position, mass) ==
    Node(children,
         prev.mass + mass,
         Vec2(RDiv(RAdd(new_bounds[1].x, new_bounds[2].x), R(2)),
              RDiv(RAdd(new_bounds[1].y, new_bounds[2].y), R(2))),
         VDiv(VAdd(VScale(prev.center_of_mass, R(prev.mass)),
                   VScale(position, R(mass))),
              R(mass + prev.mass)),
         half_size)

\* A theta_threshold: a finite value >= 0, or f32::INFINITY.
Theta(val) == [inf |-> FALSE, val |-> val]
Infinity == [inf |-> TRUE, val |-> 0]

\* calculate_theta: (2 half_size) / distance.  The result is >= 0 and is
\* kept as its square, or is +infinity when the distance is 0 (half_size
\* is never 0: it starts positive and is only halved or doubled).
CalculateTheta(node, position) ==
    LET d2 == DistanceSquared(node.center_of_mass, position)
        s  == RMul(node.half_size, R(2))
    IN  IF d2 = R(0)
        THEN [inf |-> TRUE, sq |-> R(0)]
        ELSE [inf |-> FALSE, sq |-> RDiv(RMul(s, s), d2)]

\* theta < theta_threshold
ThetaLess(theta, theta_threshold) ==
    IF theta.inf THEN FALSE
    ELSE IF theta_threshold.inf THEN TRUE
    ELSE RLt(theta.sq, R(theta_threshold.val * theta_threshold.val))

\* A variant of Accepts that asks for both conditions.
AcceptsBoth(v, node_idx, position, theta_threshold) ==
    /\ ThetaLess(CalculateTheta(v[node_idx], position), theta_threshold)
    /\ IsLeaf(v[node_idx])

\* collect_bodies, the test that adds a visited node to the result.
Accepts(v, node_idx, position, theta_threshold) ==
    \/ ThetaLess(CalculateTheta(v[node_idx], position), theta_threshold)
    \/ IsLeaf(v[node_idx])

\* The children present in a node, in slot order.
PresentChildren(node) ==
    SelectSeq(node.children, LAMBDA c : c # None)

\* A variant of CollectLoop that adds a node it expands to the result too.
RECURSIVE CollectLoopKeepsExpanded(_, _, _, _, _)
CollectLoopKeepsExpanded(v, to_visit, result, position, theta_threshold) ==
    IF to_visit = <<>> THEN result
    ELSE
    LET node_idx == to_visit[Len(to_visit)]
        rest == SubSeq(to_visit, 1, Len(to_visit) - 1)
    IN  IF Accepts(v, node_idx, position, theta_threshold)
        THEN CollectLoopKeepsExpanded(v, rest, Append(result, node_idx),
                                      position, theta_threshold)
        ELSE CollectLoopKeepsExpanded(v, rest \o PresentChildren(v[node_idx]),
                                      Append(result, node_idx),
                                      position, theta_threshold)

\* collect_bodies, the loop: the node on top of to_visit is popped, and
\* either added to the result or replaced by its children.
RECURSIVE CollectLoop(_, _, _, _, _)
CollectLoop(v, to_visit, result, position, theta_threshold) ==
    IF to_visit = <<>> THEN result
    ELSE
    LET node_idx == to_visit[Len(to_visit)]
        rest == SubSeq(to_visit, 1, Len(to_visit) - 1)
    IN  IF Accepts(v, node_idx, position, theta_threshold)
        THEN CollectLoop(v, rest, Append(result, node_idx), position, theta_threshold)
        ELSE CollectLoop(v, rest \o PresentChildren(v[node_idx]), result,
                         position, theta_threshold)

\* collect_bodies, the nodes the loop pops, in order, over its first
\* `steps` iterations.
RECURSIVE CollectVisits(_, _, _, _, _)
CollectVisits(v, to_visit, position, theta_threshold, steps) ==
    IF to_visit = <<>> \/ steps = 0 THEN <<>>
    ELSE
    LET node_idx == to_visit[Len(to_visit)]
        rest == SubSeq(to_visit, 1, Len(to_visit) - 1)
    IN  <<node_idx>> \o
        CollectVisits(v,
                      IF Accepts(v, node_idx, position, theta_threshold)
                      THEN rest ELSE rest \o PresentChildren(v[node_idx]),
                      position, theta_threshold, steps - 1)

\* The nodes collect_bodies returns (as indices into the arena).
CollectBodiesOf(v, r, position, theta_threshold) ==
    CollectLoop(v, <<r>>, <<>>, position, theta_threshold)

---------------------------------------------------------------------------
(* Inputs *)

Point(x, y) == Vec2(R(x), R(y))

\* QuadTree::new(center, half_size) of the modelled runs.
Origin == Point(0, 0)
InitHalfSizes == {4}

\* Positions passed to add_node: inside the initial bounds (two pairs that
\* share a quadrant of the root) and outside them, one on each side of the
\* root's center; the last one is further from the initial bounds than
\* their side length.
Positions ==
    {Point(1, 1), Point(3, 1), Point(-1, -1), Point(-3, -2),
     Point(5, 5), Point(-5, -5), Point(-5, 5), Point(13, -5)}

Masses == {1, 3}

QueryPositions == {Point(1, 1), Point(7, -3)}

Thresholds == {Theta(0), Theta(3), Infinity}

\* rejected: collect_bodies returned an error instead of bodies.
NoQuery == [done |-> FALSE, position |-> Origin, theta_threshold |-> Theta(0),
            rejected |-> FALSE]

NoCall == [called |-> FALSE, position |-> Origin, mass |-> 0,
           in_bounds |-> FALSE, target |-> None,
           prev_bounds |-> <<Origin, Origin>>, prev_root |-> None]

\* The leaf an in-bounds add_node of position finds in the slot its descent
\* from node_idx ends at: the descent follows get_quadrant through the
\* internal nodes; None when the slot is empty.
RECURSIVE TargetLeaf(_, _, _)
TargetLeaf(v, node_idx, position) ==
    LET child_idx == v[node_idx].children[GetQuadrant(v[node_idx], position) + 1]
    IN  IF child_idx = None THEN None
        ELSE IF IsLeaf(v[child_idx]) THEN child_idx
        ELSE TargetLeaf(v, child_idx, position)

---------------------------------------------------------------------------
(* State machine *)

\* vec, bounds, root: the fields of QuadTree.
\* crashed: an add_node call overflowed the stack; the process is gone.
\* bodies, query: the result and the arguments of the last collect_bodies.
\*   collect_bodies returns Vec<&Node>: it has no error outcome, so
\*   query.rejected is never set.
\* inserted: history, the (position, mass) of every add_node that returned.
\* created: history, for every node of the arena the number of the add_node
\*   call that pushed it as a leaf for its point (0 for the other nodes).
\* expansions: history, the number of root expansions.
\* last: history, the arguments of the last add_node call (also of the one
\*   that overflowed the stack), whether it took the in-bounds path, and
\*   the leaf it found in the slot it descended to (None when the slot was
\*   empty, or on the expansion path), and the bounds and the root before
\*   the call.

Init ==
    /\ \E h \in InitHalfSizes :
          /\ vec = NewVec(Origin, R(h))
          /\ bounds = NewBounds(Origin, R(h))
    /\ root = 1
    /\ crashed = FALSE
    /\ bodies = <<>>
    /\ query = NoQuery
    /\ inserted = <<>>
    /\ created = <<0>>
    /\ expansions = 0
    /\ last = NoCall

\* add_node.  All insertions come before the queries, as in
\* apply_acceleration.
AddNode(position, mass) ==
    /\ ~crashed
    /\ ~query.done
    /\ Len(inserted) < MaxInserts
    /\ UNCHANGED <<bodies, query>>
    /\ last' = [called |-> TRUE, position |-> position, mass |-> mass,
                in_bounds |-> InBounds(bounds, position),
                target |-> IF InBounds(bounds, position)
                           THEN TargetLeaf(vec, root, position) ELSE None,
                prev_bounds |-> bounds, prev_root |-> root]
    /\ IF InBounds(bounds, position)
       THEN LET r == SplitAddRecursive(vec, root, position, mass, 1)
            IN  IF r.overflow
                THEN /\ crashed' = TRUE
                     /\ UNCHANGED <<vec, bounds, root, inserted, created, expansions>>
                ELSE /\ vec' = r.vec
                     /\ inserted' = Append(inserted, [position |-> position, mass |-> mass])
                     /\ created' = [i \in 1..Len(r.vec) |->
                                      IF i <= Len(vec) THEN created[i]
                                      ELSE IF i = Len(r.vec) THEN Len(inserted) + 1
                                      ELSE 0]
                     /\ UNCHANGED <<bounds, root, crashed, expansions>>
       ELSE LET center == vec[root].center
                half_size == RSub(bounds[2].x, bounds[1].x)
                prev_root_idx == root
                new_bounds == ExpandBounds(bounds, center, position)
                children == ExpandChildren(center, position, prev_root_idx)
            IN  /\ bounds' = new_bounds
                /\ vec' = Append(vec, NewRoot(vec[prev_root_idx], children, new_bounds,
                                              half_size, position, mass))
                /\ root' = Len(vec) + 1
                /\ inserted' = Append(inserted, [position |-> position, mass |-> mass])
                /\ created' = Append(created, 0)
                /\ expansions' = expansions + 1
                /\ UNCHANGED crashed

\* collect_bodies.  It changes nothing in the tree, so a query that follows
\* another one returns what it returns as the first query on that tree:
\* one query per tree reaches every state the queries of apply_acceleration
\* reach.
CollectBodies(position, theta_threshold) ==
    /\ ~crashed
    /\ ~query.done
    /\ bodies' = CollectBodiesOf(vec, root, position, theta_threshold)
    /\ query' = [done |-> TRUE, position |-> position,
                 theta_threshold |-> theta_threshold, rejected |-> FALSE]
    /\ UNCHANGED <<vec, bounds, root, crashed, inserted, created, expansions, last>>

Next ==
    \/ \E position \in Positions, mass \in Masses : AddNode(position, mass)
    \/ \E position \in QueryPositions, theta_threshold \in Thresholds :
          CollectBodies(position, theta_threshold)

Spec == Init /\ [][Next]_vars

---------------------------------------------------------------------------
(* Properties *)

RECURSIVE SumMass(_)
SumMass(points) ==
    IF points = <<>> THEN 0
    ELSE points[1].mass + SumMass(Tail(points))

\* Sum of position * mass over the points.
RECURSIVE SumMoment(_)
SumMoment(points) ==
    IF points = <<>> THEN Origin
    ELSE VAdd(VScale(points[1].position, R(points[1].mass)), SumMoment(Tail(points)))

WeightedAverage(points) == VDiv(SumMoment(points), R(SumMass(points)))

\* The (center_of_mass, mass) of the nodes a query returned.
BodyPoints ==
    [i \in 1..Len(bodies) |->
        [position |-> vec[bodies[i]].center_of_mass, mass |-> vec[bodies[i]].mass]]

Count(seq, e) == Cardinality({i \in DOMAIN seq : seq[i] = e})

SameMultiset(s, t) ==
    /\ Len(s) = Len(t)
    /\ \A i \in DOMAIN s : Count(s, s[i]) = Count(t, s[i])

InBodies(i) == \E k \in DOMAIN bodies : bodies[k] = i

\* C1: after any sequence of add_node calls, in-bounds or expanding the
\* root, the mass of the root node is the sum of the masses passed to
\* add_node.
C1_RootMassIsSum == vec[root].mass = SumMass(inserted)

C1_Witness ==
    /\ expansions >= 1
    /\ \E k \in DOMAIN created : created[k] # 0
    /\ Len(inserted) >= 3
    /\ vec[root].mass = SumMass(inserted)

\* C2: whatever the tree, the query position and the threshold, the masses
\* of the nodes collect_bodies returns sum to the mass of the root.
C2_QueryMassComplete ==
    query.done => SumMass(BodyPoints) = vec[root].mass

\* C3: on a tree that received insertions, collect_bodies(pos, 0) returns
\* exactly the inserted points: leaves, one per inserted point, carrying
\* that point's position and mass, and nothing else.
C3_ExactAtZero ==
    (query.done /\ query.theta_threshold = Theta(0) /\ Len(inserted) >= 1) =>
        /\ \A k \in DOMAIN bodies : IsLeaf(vec[bodies[k]])
        /\ SameMultiset(BodyPoints, inserted)

C5_RootCenterOfMass ==
    (expansions = 0 /\ Len(inserted) >= 1) =>
        vec[root].center_of_mass = WeightedAverage(inserted)

C5_Witness ==
    /\ expansions = 0
    /\ inserted = <<[position |-> Point(1, 1), mass |-> 1],
                    [position |-> Point(-1, -1), mass |-> 3]>>
    /\ vec[root].center_of_mass = Vec2(<<-1, 2>>, <<-1, 2>>)

\* C6: on a tree that received an insertion, collect_bodies with a
\* sufficiently large threshold returns the root alone, at every query
\* position.  (Accepting a node is monotone in the threshold, so it is
\* stated for the largest threshold, infinity.)
C6_LargeThetaReturnsRoot ==
    (query.done /\ query.theta_threshold = Infinity /\ Len(inserted) >= 1) =>
        bodies = <<root>>

\* C6, amended: on a tree that received an insertion, collect_bodies with
\* the largest threshold returns the root alone at every query position
\* other than the root's center of mass.
C6_LargeThetaAwayFromCenterOfMass ==
    (/\ query.done /\ query.theta_threshold = Infinity /\ Len(inserted) >= 1
     /\ query.position # vec[root].center_of_mass) =>
        bodies = <<root>>

C6_Witness ==
    /\ query.done /\ query.theta_threshold = Infinity
    /\ Len(inserted) >= 2
    /\ query.position # vec[root].center_of_mass
    /\ ~IsLeaf(vec[root])
    /\ bodies = <<root>>

\* C7: in every state reached from QuadTree::new by add_node calls, bounds
\* is a square.
C7_BoundsSquare ==
    RSub(bounds[2].x, bounds[1].x) = RSub(bounds[2].y, bounds[1].y)

C7_Witness ==
    /\ expansions >= 2
    /\ \E k \in DOMAIN created : created[k] # 0
    /\ RLt(bounds[1].x, R(-4)) /\ RLt(R(4), bounds[2].y)
    /\ RSub(bounds[2].x, bounds[1].x) = RSub(bounds[2].y, bounds[1].y)

C10_EmptyQueryRejected ==
    (query.done /\ ~last.called) => query.rejected

\* C10, amended: collect_bodies on a tree that received no add_node is
\* not rejected; it returns the root alone, a leaf of mass 0.
C10_EmptyQueryReturnsRoot ==
    (query.done /\ ~last.called) =>
        /\ ~query.rejected
        /\ bodies = <<root>>
        /\ vec[root].mass = 0

C10_Witness ==
    /\ query.done /\ ~last.called
    /\ bodies = <<1>>
    /\ IsLeaf(vec[root])

\* The children of node i, as a set of indices.
ChildSet(v, i) == {v[i].children[q] : q \in 1..4} \ {None}

\* The nodes of the subtree of node i (i included), following the child
\* links for at most fuel levels.
RECURSIVE SubtreeUpTo(_, _, _)
SubtreeUpTo(v, i, fuel) ==
    IF fuel = 0 THEN {i}
    ELSE {i} \cup UNION {SubtreeUpTo(v, c, fuel - 1) : c \in ChildSet(v, i)}

\* No path of child links is longer than the arena.
Subtree(v, i) == SubtreeUpTo(v, i, Len(v))

SubtreeLeaves(v, i) == {n \in Subtree(v, i) : IsLeaf(v[n])}

\* The (position, mass) points held by a set of nodes, in index order.
RECURSIVE PointsOf(_, _)
PointsOf(v, nodes) ==
    IF nodes = {} THEN <<>>
    ELSE LET n == CHOOSE m \in nodes : \A k \in nodes : m <= k
         IN  <<[position |-> v[n].center_of_mass, mass |-> v[n].mass]>>
             \o PointsOf(v, nodes \ {n})

OffsetTable(c, h, q) ==
    CASE q = 0 -> Vec2(RSub(c.x, h), RSub(c.y, h))
      [] q = 1 -> Vec2(RAdd(c.x, h), RSub(c.y, h))
      [] q = 2 -> Vec2(RAdd(c.x, h), RAdd(c.y, h))
      [] q = 3 -> Vec2(RSub(c.x, h), RAdd(c.y, h))

StrictlyInside(b, position) ==
    /\ RLt(b[1].x, position.x) /\ RLt(position.x, b[2].x)
    /\ RLt(b[1].y, position.y) /\ RLt(position.y, b[2].y)

\* C13: after a root expansion the old root is in the slot of the new root
\* that get_quadrant gives for the positions strictly inside the old
\* bounds, so that inserting such a position descends into the old root.
C13_OldRootInItsQuadrant ==
    (last.called /\ ~last.in_bounds) =>
        \A position \in Positions :
            StrictlyInside(last.prev_bounds, position) =>
                vec[root].children[GetQuadrant(vec[root], position) + 1]
                    = last.prev_root

RAbs(a) == <<Abs(a[1]), a[2]>>
RLe(a, b) == ~RLt(b, a)

\* The point lies in the square region of the node.
InRegion(node, point) ==
    /\ RLe(RAbs(RSub(point.x, node.center.x)), node.half_size)
    /\ RLe(RAbs(RSub(point.y, node.center.y)), node.half_size)

\* C14: every leaf created by an insertion lies inside the region of its
\* own node: the center computed for a quadrant index is the center of the
\* sub-square whose positions get_quadrant maps to that index.
C14_LeafInsideItsRegion ==
    \A i \in DOMAIN vec :
        (created[i] # 0 /\ IsLeaf(vec[i])) => InRegion(vec[i], vec[i].center_of_mass)

\* The side length of the square b.
Side(b) == RSub(b[2].x, b[1].x)

\* On each axis the position is at most one side length of b away from b.
WithinOneSide(b, position) ==
    /\ RLe(RSub(b[1].x, Side(b)), position.x) /\ RLe(position.x, RAdd(b[2].x, Side(b)))
    /\ RLe(RSub(b[1].y, Side(b)), position.y) /\ RLe(position.y, RAdd(b[2].y, Side(b)))

\* The square inner lies in the square outer.
Contains(outer, inner) ==
    /\ RLe(outer[1].x, inner[1].x) /\ RLe(inner[2].x, outer[2].x)
    /\ RLe(outer[1].y, inner[1].y) /\ RLe(inner[2].y, outer[2].y)

\* C15: a root expansion doubles the side length of the bounds and keeps
\* the old bounds inside the new ones; when the position was at most one
\* old side length away from the old bounds on each axis, the new bounds
\* contain it.
C15_ExpansionCoversPosition ==
    (last.called /\ ~last.in_bounds) =>
        /\ RSub(bounds[2].x, bounds[1].x) = RMul(R(2), Side(last.prev_bounds))
        /\ RSub(bounds[2].y, bounds[1].y) = RMul(R(2), Side(last.prev_bounds))
        /\ Contains(bounds, last.prev_bounds)
        /\ WithinOneSide(last.prev_bounds, last.position) =>
              InBounds(bounds, last.position)

\* A second expansion, towards a position out of the bounds the first one
\* left, that now lies in the bounds.
C15_Witness ==
    /\ last.called /\ ~last.in_bounds
    /\ expansions >= 2
    /\ ~InBounds(last.prev_bounds, last.position)
    /\ WithinOneSide(last.prev_bounds, last.position)
    /\ InBounds(bounds, last.position)

\* C16: an add_node call with an out-of-bounds position appends exactly
\* one node to the arena, the new root, whose only child is the previous
\* root; it pushes no leaf for the point and leaves every node that
\* existed before unchanged.
C16_ExpansionFrame ==
    [][(/\ inserted' # inserted
        /\ ~InBounds(bounds, inserted'[Len(inserted')].position)) =>
          /\ Len(vec') = Len(vec) + 1
          /\ SubSeq(vec', 1, Len(vec)) = vec
          /\ root' = Len(vec')
          /\ ChildSet(vec', root') = {root}
          /\ Cardinality({q \in 1..4 : vec'[root'].children[q] # None}) = 1
          /\ ~IsLeaf(vec'[Len(vec')])]_vars

\* The state after an expansion of a tree that already held leaves.
C16_Witness ==
    /\ last.called /\ ~last.in_bounds
    /\ \E i \in DOMAIN vec : created[i] # 0
    /\ root = Len(vec)
    /\ ChildSet(vec, root) = {last.prev_root}
    /\ \A i \in DOMAIN vec : IsLeaf(vec[i]) => i < Len(vec)

\* C17: the region of the root node is the bounds.
C17_RootRegionIsBounds ==
    /\ Vec2(RSub(vec[root].center.x, vec[root].half_size),
            RSub(vec[root].center.y, vec[root].half_size)) = bounds[1]
    /\ Vec2(RAdd(vec[root].center.x, vec[root].half_size),
            RAdd(vec[root].center.y, vec[root].half_size)) = bounds[2]

\* The state after two expansions and an in-bounds insertion.
C17_Witness ==
    /\ expansions >= 2
    /\ \E i \in DOMAIN vec : created[i] # 0
    /\ root > 1
    /\ Vec2(RSub(vec[root].center.x, vec[root].half_size),
            RSub(vec[root].center.y, vec[root].half_size)) = bounds[1]

\* The child slots (node, slot) that hold node i.
SlotsHolding(v, i) ==
    {s \in (DOMAIN v) \X (1..4) : v[s[1]].children[s[2]] = i}

\* The nodes below node i (i excluded).
Descendants(v, i) == UNION {Subtree(v, c) : c \in ChildSet(v, i)}

Distinct(seq) == \A k, l \in DOMAIN seq : k # l => seq[k] # seq[l]

====
